---------------------------- MODULE Spec2Model ----------------------------
(***************************************************************************)
(* A model of backup-scrapbox: the snapshot document (Backup), its schema  *)
(* validation, the code filter and the link extraction of _backup.py, and  *)
(* the concurrent link prober of _external_link.py.                        *)
(*                                                                         *)
(* A Python str is a sequence of its characters, each a string; a Python   *)
(* dict is a function from its keys; None is a record of its own where the *)
(* other values are records, and -1 where they are naturals.               *)
(***************************************************************************)
EXTENDS Integers, Sequences, FiniteSets, TLC

VARIABLES
    \* ---- _backup.py: one Backup object
    backup,           \* Backup._backup: the snapshot document (BackupJSON)
    info,             \* Backup._info: the metadata (BackupInfoJSON) or None
    status,           \* Backup.__init__: "new" | "constructed" | "ValidationError"
    \* ---- _backup.py: one call of Backup.external_links
    scan_pc,          \* "idle" | "scanning" | "returned"
    page_no,          \* the page of the loop `for page in pages`, from 1
    line_no,          \* how many of page['lines'] page_lines has consumed
    i,                \* _filter_code: the counter of enumerate
    code_block_indent_level,   \* _filter_code: NoLevel is None
    ext_links,        \* external_links: the list `links`
    yielded,          \* what _filter_code has yielded, and from where
    \* ---- _backup.py: one call of Backup.internal_links
    internal_pc,      \* "idle" | "returned" | "KeyError"
    internal_links,   \* the list[InternalLink] returned
    \* ---- _backup.py: the directory of one project, saved to and loaded from
    project,          \* Backup._project, and the argument of Backup.load
    disk,             \* the files of the directory: path -> JSON text
    saves,            \* how many times Backup.save has run
    save_pc,          \* the Backup object: "unsaved" | "saved"
    load_pc,          \* Backup.load: "idle" | "returned" | "ValidationError"
    loaded,           \* what Backup.load returned
    written,          \* the paths Backup.save of this Backup wrote, in order
    files_pc,         \* Backup.save_files: "idle" | "returned"
    files,            \* what Backup.save_files returned
    \* ---- _backup.py: one call of Backup.sort_pages
    sort_pc,          \* "idle" | "returned"
    page_order,       \* the argument `order`: "None" is None
    unsorted,         \* the list of pages before the call
    \* ---- _download.py, _export.py: one run of download or of export
    run_kind,         \* "idle" | "download" | "export"
    remote,           \* the snapshots of the run, oldest first
    position,         \* the snapshot the loop of the run is at, from 1
    run_pc,           \* "idle" | "running" | "returned" | "ValidationError"
    \* ---- _external_link.py: one run of _request_external_links
    links,            \* the argument: list[ExternalLink]
    parallel_limit,   \* the argument
    semaphore,        \* the value of asyncio.Semaphore(parallel_limit)
    pc,               \* per task: "created" | "requesting" | "done" | "failed"
    outcome,          \* per task: what session.get did (NoLog before)
    task_result,      \* per task: the ExternalLinkLog _request returned
    finished,         \* the task indexes in order of completion
    gather,           \* asyncio.gather: "idle" | "pending" | "returned" | "raised"
    logs,             \* what asyncio.gather returned
    clock             \* time.time(), advancing by one second per read

backupVars == <<backup, info, status>>

scanVars == <<scan_pc, page_no, line_no, i, code_block_indent_level,
              ext_links, yielded>>

probeVars == <<links, parallel_limit, semaphore, pc, outcome, task_result,
               finished, gather, logs, clock>>

internalVars == <<internal_pc, internal_links>>

storeVars ==
    <<project, disk, saves, save_pc, load_pc, loaded, written, files_pc, files>>

sortVars == <<sort_pc, page_order, unsorted>>

runVars == <<run_kind, remote, position, run_pc>>

vars ==
    <<backupVars, scanVars, internalVars, storeVars, sortVars, runVars, probeVars>>

----------------------------------------------------------------------------
(* Bounds of the model *)

MaxLinks == 3          \* links given to the prober
MaxParallel == 2       \* parallel_limit
MaxSchemaLines == 2    \* lines of a page given to the validator
MaxScanLines == 3      \* lines, over all pages, of a document that is scanned
MaxLinksLc == 2        \* entries of linksLc of the first page
MaxSaves == 2           \* runs of Backup.save into the directory
MaxSortPages == 3      \* pages of a document whose pages are sorted
MaxCreated == 3        \* the greatest value of created of such a page
MaxSnapshots == 3      \* snapshots of a run of download or of export

----------------------------------------------------------------------------
(* Strings *)

Letters == <<"a", "b", "c", "d", "e", "f">>

Str_http == <<"h", "t", "t", "p", ":", "/", "/">>
Str_https == <<"h", "t", "t", "p", "s", ":", "/", "/">>
Str_code == <<"c", "o", "d", "e", ":">>

\* The character ` (which no TLA+ string can hold)
Backtick == "backtick"

\* The characters of the model in the order of their code points
Chars ==
    << "\t", " ", "#", "$", "%", ".", "/", "2", "3", "5", ":", "A", "B", "F",
       "]", "_", Backtick, "a", "b", "c", "d", "e", "f", "h", "i", "j", "n", "o",
       "p", "s", "t" >>

\* The rank of a character in the order of code points
Ord(c) == CHOOSE k \in 1..Len(Chars) : Chars[k] = c

\* a < b on str: lexicographic by code point
RECURSIVE StrLess(_, _)
StrLess(a, b) ==
    IF a = <<>> THEN b # <<>>
    ELSE IF b = <<>> THEN FALSE
    ELSE IF Head(a) = Head(b) THEN StrLess(Tail(a), Tail(b))
    ELSE Ord(Head(a)) < Ord(Head(b))

\* list.sort and sorted on str keys are stable: the indexes of keys in the
\* order in which the sort leaves them
SortOrder(keys) ==
    LET n == Len(keys)
        before(k) == {j \in 1..n : \/ StrLess(keys[j], keys[k])
                                   \/ keys[j] = keys[k] /\ j < k}
    IN  [p \in 1..n |-> CHOOSE k \in 1..n : Cardinality(before(k)) = p - 1]

StartsWith(text, prefix) ==
    /\ Len(text) >= Len(prefix)
    /\ SubSeq(text, 1, Len(prefix)) = prefix

Drop(text, n) == SubSeq(text, n + 1, Len(text))

----------------------------------------------------------------------------
(* Python values *)

\* None, where the other values are records
None == [py |-> "None"]

\* The function f without the key k
Without(f, k) == [x \in DOMAIN f \ {k} |-> f[x]]

\* A str and a dict as a page line: the value with its Python type, named as
\* JSON Schema names it
PyStr(text) == [type |-> "string", value |-> text]
PyDict(dict) == [type |-> "object", value |-> dict]

Location(title, line) == [title |-> title, line |-> line]

ExternalLink(url, locations) == [url |-> url, locations |-> locations]

----------------------------------------------------------------------------
(* _backup.py: the JSON schemas. A document validates against a schema  *)
(* when the operator of the schema's name is TRUE of it. The values of   *)
(* the primitive properties are of the declared types throughout.        *)

\* jsonschema_backup_info: required id, backuped; additionalProperties False
jsonschema_backup_info(instance) ==
    /\ {"id", "backuped"} \subseteq DOMAIN instance
    /\ DOMAIN instance \subseteq {"id", "backuped", "totalPages", "totalLinks"}

\* jsonschema_backup_page_line: the schema spells its list of required keys
\* 'requred', a keyword JSON Schema does not know and the validator ignores:
\* no key is required.
jsonschema_backup_page_line(instance) ==
    /\ instance.type = "object"
    /\ DOMAIN instance.value \subseteq {"text", "created", "updated"}

\* oneOf: the instance validates against exactly one of the two subschemas
OneOf(first, second) == (first /\ ~second) \/ (second /\ ~first)

\* jsonschema_backup_page, the property 'lines'
jsonschema_backup_page_lines(instance) ==
    OneOf(\A k \in 1..Len(instance) : instance[k].type = "string",
          \A k \in 1..Len(instance) : jsonschema_backup_page_line(instance[k]))

\* jsonschema_backup_page: required title, created, updated, lines
jsonschema_backup_page(instance) ==
    /\ {"title", "created", "updated", "lines"} \subseteq DOMAIN instance
    /\ DOMAIN instance \subseteq
           {"title", "created", "updated", "id", "lines", "linksLc"}
    /\ jsonschema_backup_page_lines(instance.lines)

\* jsonschema_backup: required name, displayName, exported, pages
jsonschema_backup(instance) ==
    /\ {"name", "displayName", "exported", "pages"} \subseteq DOMAIN instance
    /\ DOMAIN instance \subseteq {"name", "displayName", "exported", "pages"}
    /\ \A k \in 1..Len(instance.pages) :
           jsonschema_backup_page(instance.pages[k])

----------------------------------------------------------------------------
(* _backup.py: Backup.__init__ *)

\* Backup.__init__: the document, and the metadata when given, are validated;
\* jsonschema.validate raises ValidationError.
Construct ==
    /\ status = "new"
    /\ status' = IF /\ jsonschema_backup(backup)
                    /\ info # None => jsonschema_backup_info(info)
                 THEN "constructed"
                 ELSE "ValidationError"
    /\ UNCHANGED <<backup, info>>

----------------------------------------------------------------------------
(* The documents the validator is run on *)

\* f itself, f without one of its keys, and f with a key of no schema
KeyVariants(f) ==
    {f} \cup {Without(f, k) : k \in DOMAIN f} \cup {f @@ ("unknown" :> 0)}

GoodInfo == [id |-> <<"a">>, backuped |-> 1, totalPages |-> 1, totalLinks |-> 0]

SchemaInfos == {None} \cup KeyVariants(GoodInfo)

GoodLine == [text |-> <<"a">>, created |-> 1, updated |-> 1]

SchemaLines == {PyStr(<<"a">>)} \cup {PyDict(l) : l \in KeyVariants(GoodLine)}

GoodPage ==
    [title |-> <<"a">>, created |-> 1, updated |-> 1, id |-> <<"a">>,
     lines |-> <<PyStr(<<"a">>)>>, linksLc |-> <<>>]

SchemaPages ==
    UNION { KeyVariants([GoodPage EXCEPT !.title = <<"b">>, !.lines = ls]) :
            ls \in UNION { [1..n -> SchemaLines] : n \in 0..MaxSchemaLines } }

GoodBackup ==
    [name |-> <<"a">>, displayName |-> <<"a">>, exported |-> 1,
     pages |-> <<GoodPage>>]

SchemaBackups ==
    UNION { KeyVariants([GoodBackup EXCEPT !.pages = ps]) :
            ps \in {<<>>} \cup UNION { {<<p>>, <<GoodPage, p>>} : p \in SchemaPages } }

----------------------------------------------------------------------------
(* _backup.py: _filter_code and Backup.external_links *)

NoLevel == -1

\* re \s, on the characters of the model
Whitespace == {"\t", " "}

\* indent = re.compile(r'(\t| )*'): the length of indent.match(line).group()
RECURSIVE IndentLength(_)
IndentLength(line) ==
    IF line = <<>> \/ Head(line) \notin {"\t", " "} THEN 0
    ELSE 1 + IndentLength(Tail(line))

\* code_block = re.compile(r'(?P<indent>(\t| )*)code:.+'), code_block.match
code_block_match(line) ==
    LET rest == Drop(line, IndentLength(line))
    IN  StartsWith(rest, Str_code) /\ Len(rest) > Len(Str_code)

\* cli_notation = re.compile(r'(\t| )*(\$|%) .+'), cli_notation.match
cli_notation_match(line) ==
    LET rest == Drop(line, IndentLength(line))
    IN  /\ Len(rest) >= 3
        /\ rest[1] \in {"$", "%"}
        /\ rest[2] = " "

\* code_snippets = re.compile(r'`.*?`'), code_snippets.sub(' ', line)
RECURSIVE code_snippets_sub(_)
code_snippets_sub(line) ==
    IF line = <<>> THEN <<>>
    ELSE IF Head(line) = Backtick /\ \E j \in 2..Len(line) : line[j] = Backtick
    THEN LET close == CHOOSE j \in 2..Len(line) :
                          /\ line[j] = Backtick
                          /\ \A m \in 2..(j - 1) : line[m] # Backtick
         IN  <<" ">> \o code_snippets_sub(Drop(line, close))
    ELSE <<Head(line)>> \o code_snippets_sub(Tail(line))

\* [^\s\]]+ : the length of the longest prefix with no whitespace and no ]
RECURSIVE UrlRun(_)
UrlRun(text) ==
    IF text = <<>> \/ Head(text) \in Whitespace \cup {"]"} THEN 0
    ELSE 1 + UrlRun(Tail(text))

\* The length of the match of r'https?://[^\s\]]+' at the start of text, 0
\* when there is none
UrlMatchLength(text) ==
    LET scheme == IF StartsWith(text, Str_https) THEN Len(Str_https)
                  ELSE IF StartsWith(text, Str_http) THEN Len(Str_http)
                  ELSE 0
        run == UrlRun(Drop(text, scheme))
    IN  IF scheme > 0 /\ run > 0 THEN scheme + run ELSE 0

\* regex.findall(line): the matches from left to right, none overlapping
RECURSIVE regex_findall(_)
regex_findall(line) ==
    IF line = <<>> THEN <<>>
    ELSE LET m == UrlMatchLength(line)
         IN  IF m > 0
             THEN <<SubSeq(line, 1, m)>> \o regex_findall(Drop(line, m))
             ELSE regex_findall(Tail(line))

\* page_lines: a str line is yielded, a dict line with the key 'text' yields
\* its text, and any other line matches no case and yields nothing
HasText(raw) == raw.type = "string" \/ "text" \in DOMAIN raw.value

TextOf(raw) == IF raw.type = "string" THEN raw.value ELSE raw.value.text

\* A variant of EndsBlock: a line must be indented less than the block start.
EndsBlockStrictly(indent_level, level) == indent_level < level

\* if indent_level <= code_block_indent_level: the code block ends
EndsBlock(indent_level, level) == indent_level <= level

\* One iteration of the loop of _filter_code on `line`, with
\* code_block_indent_level = level: the new level, and whether the iteration
\* reaches the yield, and with which text
FilterLine(level, line) ==
    LET in_block == level # NoLevel /\ ~EndsBlock(IndentLength(line), level)
    IN  IF in_block
        THEN [level |-> level, yields |-> FALSE, line |-> line]
        ELSE IF code_block_match(line)
        THEN [level |-> IndentLength(line), yields |-> FALSE, line |-> line]
        ELSE IF cli_notation_match(line)
        THEN [level |-> NoLevel, yields |-> FALSE, line |-> line]
        ELSE [level |-> NoLevel, yields |-> TRUE,
              line |-> code_snippets_sub(line)]

\* A variant of AddLocation: the location is put first.
AddLocationFirst(found, location) ==
    [found EXCEPT !.locations = <<location>> \o @]

\* found.locations.append(location)
AddLocation(found, location) ==
    [found EXCEPT !.locations = Append(@, location)]

\* The body of `for url in regex.findall(line)` for one url
AddUrl(list, url, location) ==
    IF \E k \in 1..Len(list) : list[k].url = url
    THEN LET found == CHOOSE k \in 1..Len(list) :
                          /\ list[k].url = url
                          /\ \A j \in 1..(k - 1) : list[j].url # url
         IN  [list EXCEPT ![found] = AddLocation(@, location)]
    ELSE Append(list, [url |-> url, locations |-> <<location>>])

RECURSIVE AddUrls(_, _, _)
AddUrls(list, urls, location) ==
    IF urls = <<>> THEN list
    ELSE AddUrls(AddUrl(list, Head(urls), location), Tail(urls), location)

\* links.sort(key=lambda link: link.url)
SortByUrl(list) ==
    LET order == SortOrder([k \in 1..Len(list) |-> list[k].url])
    IN  [p \in 1..Len(list) |-> list[order[p]]]

\* external_links is called: links = [], and the loop over the pages begins
ExternalLinksCall ==
    /\ status = "constructed"
    /\ scan_pc = "idle"
    /\ scan_pc' = "scanning"
    /\ page_no' = 1
    /\ UNCHANGED <<line_no, i, code_block_indent_level, ext_links, yielded>>

\* page_lines takes the next of page['lines']; when it yields, _filter_code
\* runs one iteration of its loop, and when that yields, external_links
\* runs the body of its loop
ScanLine ==
    /\ scan_pc = "scanning"
    /\ page_no <= Len(backup.pages)
    /\ line_no < Len(backup.pages[page_no].lines)
    /\ line_no' = line_no + 1
    /\ LET page == backup.pages[page_no]
           raw == page.lines[line_no + 1]
       IN  IF ~HasText(raw)
           THEN UNCHANGED <<i, code_block_indent_level, ext_links, yielded>>
           ELSE LET step == FilterLine(code_block_indent_level, TextOf(raw))
                    location == Location(page.title, i)
                IN  /\ i' = i + 1
                    /\ code_block_indent_level' = step.level
                    /\ IF step.yields
                       THEN /\ yielded' = Append(yielded,
                                   [line |-> step.line, location |-> location,
                                    page |-> page_no, position |-> line_no])
                            /\ ext_links' = AddUrls(ext_links,
                                   regex_findall(step.line), location)
                       ELSE UNCHANGED <<ext_links, yielded>>
    /\ UNCHANGED <<scan_pc, page_no>>

\* The lines of the page are exhausted: the next page, with a new generator
NextPage ==
    /\ scan_pc = "scanning"
    /\ page_no <= Len(backup.pages)
    /\ line_no = Len(backup.pages[page_no].lines)
    /\ page_no' = page_no + 1
    /\ line_no' = 0
    /\ i' = 0
    /\ code_block_indent_level' = NoLevel
    /\ UNCHANGED <<scan_pc, ext_links, yielded>>

\* The pages are exhausted: links.sort(...) and return links
ExternalLinksReturn ==
    /\ scan_pc = "scanning"
    /\ page_no > Len(backup.pages)
    /\ ext_links' = SortByUrl(ext_links)
    /\ scan_pc' = "returned"
    /\ UNCHANGED <<page_no, line_no, i, code_block_indent_level, yielded>>

----------------------------------------------------------------------------
(* The documents that are scanned *)

Str_code_a == Str_code \o <<"a">>
Url_a == Str_http \o <<"a">>
Url_b == Str_https \o <<"b">>

ScanTexts ==
    { Str_code_a,                                   \* a block start
      <<" ">> \o Str_code_a,                        \* an indented block start
      <<"\t">> \o Url_a,                            \* indented by one
      <<" ", "\t">> \o Url_b \o <<" ">> \o Url_a,   \* indented by two
      Url_a \o <<"]", Backtick>> \o Url_b \o <<Backtick>>,   \* not indented
      <<"$", " ">> \o Url_b }                       \* CLI notation

\* The lines in the form of the document: str, or dict, where a dict may
\* lack its text
ScanLines(form) ==
    IF form = "string" THEN {PyStr(t) : t \in ScanTexts}
    ELSE {PyDict([text |-> t, created |-> 1, updated |-> 1]) : t \in ScanTexts}
         \cup {PyDict([created |-> 1, updated |-> 1])}

\* The elements of a set of integers in ascending order
Ascending(S) ==
    [p \in 1..Cardinality(S) |->
        CHOOSE x \in S : Cardinality({y \in S : y < x}) = p - 1]

\* The lines cut into pages after the positions of cuts; page k is titled
\* by the k-th letter
PagesOf(lines, cuts) ==
    LET n == Len(lines)
        first == Ascending({1} \cup {c + 1 : c \in cuts})
        last == Ascending(cuts \cup {n})
    IN  IF n = 0 THEN <<>>
        ELSE [k \in 1..Len(first) |->
                 [title |-> <<Letters[k]>>, created |-> k, updated |-> k,
                  lines |-> SubSeq(lines, first[k], last[k]),
                  linksLc |-> <<>>]]

ScanBackups ==
    { [GoodBackup EXCEPT !.pages = PagesOf(c[1], c[2])] :
        c \in UNION { UNION { [1..n -> ScanLines(form)] \X SUBSET (1..(n - 1)) :
                              n \in 0..MaxScanLines } :
                      form \in {"string", "object"} } }

----------------------------------------------------------------------------
(* _backup.py: Backup.page_titles and Backup.internal_links *)

\* str.lower, on the characters of the model
Lower(c) ==
    CASE c = "A" -> "a"
      [] c = "B" -> "b"
      [] c = "F" -> "f"
      [] OTHER -> c

\* title.lower().replace(' ', '_')
_normalize_page_title(title) ==
    [k \in 1..Len(title) |->
        IF Lower(title[k]) = " " THEN "_" ELSE Lower(title[k])]

\* sorted(page['title'] for page in self._backup['pages'])
page_titles(document) ==
    LET titles == [k \in 1..Len(document.pages) |-> document.pages[k].title]
        order == SortOrder(titles)
    IN  [p \in 1..Len(titles) |-> titles[order[p]]]

\* dict((_normalize_page_title(page), page) for page in self.page_titles()):
\* of two titles of the same key the later one stays
PagesDict(titles) ==
    [key \in {_normalize_page_title(titles[k]) : k \in 1..Len(titles)} |->
        LET last == CHOOSE k \in 1..Len(titles) :
                        /\ _normalize_page_title(titles[k]) = key
                        /\ \A j \in (k + 1)..Len(titles) :
                               _normalize_page_title(titles[j]) # key
        IN  titles[last]]

\* pages.get(link, link)
DictGet(dict, key, default) ==
    IF key \in DOMAIN dict THEN dict[key] ELSE default

InternalLinkNode(name, type) == [name |-> name, type |-> type]

InternalLink(node, to_links) == [node |-> node, to_links |-> to_links]

\* The node of one entry of linksLc
LinkNode(pages, link) ==
    InternalLinkNode(DictGet(pages, link, link),
                     IF _normalize_page_title(link) \in DOMAIN pages
                     THEN "page" ELSE "word")

\* The InternalLink of one page
PageInternalLink(pages, page) ==
    LET nodes == [k \in 1..Len(page.linksLc) |-> LinkNode(pages, page.linksLc[k])]
        order == SortOrder([k \in 1..Len(nodes) |-> nodes[k].name])
    IN  InternalLink(InternalLinkNode(page.title, "page"),
                     [p \in 1..Len(nodes) |-> nodes[order[p]]])

\* Backup.internal_links: page['linksLc'] raises KeyError on a page without
\* the key, which the schema does not require
InternalLinks ==
    /\ status = "constructed"
    /\ internal_pc = "idle"
    /\ IF \E k \in 1..Len(backup.pages) : "linksLc" \notin DOMAIN backup.pages[k]
       THEN /\ internal_pc' = "KeyError"
            /\ internal_links' = internal_links
       ELSE LET pages == PagesDict(page_titles(backup))
                list == [k \in 1..Len(backup.pages) |->
                            PageInternalLink(pages, backup.pages[k])]
                order == SortOrder([k \in 1..Len(list) |-> list[k].node.name])
            IN  /\ internal_links' = [p \in 1..Len(list) |-> list[order[p]]]
                /\ internal_pc' = "returned"

----------------------------------------------------------------------------
(* The documents whose internal links are resolved *)

TitlePool == { <<"A", " ", "b">>, <<"a">>, <<"B">> }

LinksLcPool == { <<"a", " ", "b">>, <<"a", "_", "b">>, <<"a">>, <<"b">>, <<"c">> }

\* The sequences of distinct titles
TitleLists ==
    UNION { { t \in [1..n -> TitlePool] : \A j, k \in 1..n : j # k => t[j] # t[k] } :
            n \in 0..Cardinality(TitlePool) }

\* The first page has any linksLc; a later page has none, one, or no key
FirstLinksLc == UNION { [1..n -> LinksLcPool] : n \in 0..MaxLinksLc }

LaterLinksLc ==
    { [key |-> TRUE, linksLc |-> <<>>], [key |-> TRUE, linksLc |-> << <<"a">> >>],
      [key |-> FALSE] }

InternalPage(title, choice) ==
    LET page == [title |-> title, created |-> 1, updated |-> 1,
                 lines |-> <<PyStr(title)>>]
    IN  IF choice.key THEN page @@ ("linksLc" :> choice.linksLc) ELSE page

InternalBackups ==
    UNION { UNION { { [GoodBackup EXCEPT !.pages =
                          [k \in 1..Len(titles) |->
                              InternalPage(titles[k],
                                  IF k = 1 THEN [key |-> TRUE, linksLc |-> first]
                                  ELSE later[k])]] :
                      later \in [2..Len(titles) -> LaterLinksLc] } :
                    first \in FirstLinksLc } :
            titles \in TitleLists }

----------------------------------------------------------------------------
(* _external_link.py *)

\* The lists the prober is run on: n links of distinct urls, the k-th found
\* at k places, in ascending or in descending order of url.
LinkAt(k) ==
    ExternalLink(Str_http \o <<Letters[k]>>,
                 [j \in 1..k |-> Location(<<Letters[j]>>, k - j)])

LinkLists ==
    UNION { { [k \in 1..n |-> LinkAt(k)], [k \in 1..n |-> LinkAt(n + 1 - k)] } :
            n \in 0..MaxLinks }

ResponseLog(status_code, content_type) ==
    [kind |-> "ResponseLog",
     status_code |-> status_code, content_type |-> content_type]

ErrorResponse == [kind |-> "error"]

ExternalLinkLog(url, locations, access_timestamp, response) ==
    [url |-> url, locations |-> locations,
     access_timestamp |-> access_timestamp, response |-> response]

NoLog == [kind |-> "none"]

\* What `async with session.get(link.url)` can do: complete with a response
\* of some status, or raise.
Responses ==
    { [kind |-> "response", status |-> 200, content_type |-> "text/html"],
      [kind |-> "response", status |-> 404, content_type |-> "None"] }

Exceptions ==
    { [kind |-> "asyncio.TimeoutError"],
      [kind |-> "aiohttp.ClientError"],
      [kind |-> "Exception"] }

\* A variant of Caught: only the timeout is caught.
CaughtTimeoutOnly(e) == e.kind = "asyncio.TimeoutError"

\* except (asyncio.TimeoutError, aiohttp.ClientError)
Caught(e) == e.kind \in {"asyncio.TimeoutError", "aiohttp.ClientError"}

\* A variant of SemaphoreInit: one permit too many.
SemaphoreInitPlusOne(limit) == limit + 1

\* semaphore = asyncio.Semaphore(parallel_limit)
SemaphoreInit(limit) == limit

\* A variant of GatherResults: the results in order of completion.
GatherInCompletionOrder(results, order) ==
    [k \in 1..Len(order) |-> results[order[k]]]

\* return await asyncio.gather(*tasks): the results in the order of the tasks
GatherResults(results, order) ==
    [k \in 1..Len(order) |-> results[k]]

Tasks == 1..Len(links)

InFlight == {t \in Tasks : pc[t] = "requesting"}

\* _parallel_request up to the await of session.get: the semaphore is
\* acquired, _request is entered and reads the time.
EnterRequest(t) ==
    /\ gather = "pending"
    /\ pc[t] = "created"
    /\ semaphore > 0
    /\ semaphore' = semaphore - 1
    /\ clock' = clock + 1
    /\ task_result' = [task_result EXCEPT ![t] =
               ExternalLinkLog(links[t].url, links[t].locations, clock, NoLog)]
    /\ pc' = [pc EXCEPT ![t] = "requesting"]
    /\ UNCHANGED <<links, parallel_limit, outcome, finished, gather, logs>>
    /\ UNCHANGED <<backupVars, scanVars, internalVars, storeVars, sortVars, runVars>>

\* session.get completes with a response: _request returns its log and the
\* semaphore is released.
Respond(t) ==
    /\ gather = "pending"
    /\ pc[t] = "requesting"
    /\ \E r \in Responses :
        /\ outcome' = [outcome EXCEPT ![t] = r]
        /\ task_result' = [task_result EXCEPT ![t].response =
               ResponseLog(r.status, r.content_type)]
    /\ pc' = [pc EXCEPT ![t] = "done"]
    /\ semaphore' = semaphore + 1
    /\ finished' = Append(finished, t)
    /\ UNCHANGED <<links, parallel_limit, gather, logs, clock>>
    /\ UNCHANGED <<backupVars, scanVars, internalVars, storeVars, sortVars, runVars>>

\* session.get raises: a caught exception is logged as 'error'; any other
\* leaves _request and the task, and asyncio.gather raises it to the caller.
Raise(t) ==
    /\ gather = "pending"
    /\ pc[t] = "requesting"
    /\ \E e \in Exceptions :
        /\ outcome' = [outcome EXCEPT ![t] = e]
        /\ IF Caught(e)
           THEN /\ task_result' =
                       [task_result EXCEPT ![t].response = ErrorResponse]
                /\ pc' = [pc EXCEPT ![t] = "done"]
                /\ finished' = Append(finished, t)
                /\ gather' = gather
           ELSE /\ task_result' = [task_result EXCEPT ![t] = NoLog]
                /\ pc' = [pc EXCEPT ![t] = "failed"]
                /\ finished' = finished
                /\ gather' = "raised"
    /\ semaphore' = semaphore + 1
    /\ UNCHANGED <<links, parallel_limit, logs, clock>>
    /\ UNCHANGED <<backupVars, scanVars, internalVars, storeVars, sortVars, runVars>>

\* Every task is done: asyncio.gather returns the list of results.
GatherReturn ==
    /\ gather = "pending"
    /\ \A t \in Tasks : pc[t] = "done"
    /\ logs' = GatherResults(task_result, finished)
    /\ gather' = "returned"
    /\ UNCHANGED <<links, parallel_limit, semaphore, pc, outcome,
                   task_result, finished, clock>>
    /\ UNCHANGED <<backupVars, scanVars, internalVars, storeVars, sortVars, runVars>>

----------------------------------------------------------------------------
(* _backup.py: the files of a Backup. A path is the sequence of its       *)
(* components, each a str; the directory holds the files of one project.  *)

Str_json == <<".", "j", "s", "o", "n">>
Str_info_json == <<".", "i", "n", "f", "o", ".", "j", "s", "o", "n">>
Str_pages == <<"p", "a", "g", "e", "s">>

\* _escape_filename, the table of str.maketrans
EscapeTable(c) ==
    CASE c = " " -> <<"_">>
      [] c = "#" -> <<"%", "2", "3">>
      [] c = "%" -> <<"%", "2", "5">>
      [] c = "/" -> <<"%", "2", "F">>
      [] OTHER   -> <<c>>

\* _escape_filename: str.translate replaces each character on its own, once
RECURSIVE _escape_filename(_)
_escape_filename(text) ==
    IF text = <<>> THEN <<>>
    ELSE EscapeTable(Head(text)) \o _escape_filename(Tail(text))

\* pathlib: PurePath.joinpath with one relative component
joinpath(path, name) == Append(path, name)

\* pathlib: PurePath.suffix, from the last dot of the name when that dot is
\* neither the first nor the last character
suffix(name) ==
    LET dots == { k \in 1..Len(name) : name[k] = "." }
        last == IF dots = {} THEN 0 ELSE CHOOSE k \in dots : \A j \in dots : j <= k
    IN  IF 1 < last /\ last < Len(name)
        THEN SubSeq(name, last, Len(name))
        ELSE <<>>

\* pathlib: PurePath.with_suffix
with_suffix(path, new_suffix) ==
    LET name == path[Len(path)]
        old == suffix(name)
        stem == SubSeq(name, 1, Len(name) - Len(old))
    IN  [path EXCEPT ![Len(path)] = stem \o new_suffix]

\* Backup.load reading the project's name as the file's, unescaped
LoadBackupPathUnescaped(directory, project_name) ==
    joinpath(directory, project_name \o Str_json)

\* Backup.save: backup_path
SaveBackupPath(directory, project_name) ==
    joinpath(directory, _escape_filename(project_name) \o Str_json)

\* Backup.load: backup_path
LoadBackupPath(directory, project_name) ==
    joinpath(directory, _escape_filename(project_name) \o Str_json)

\* Backup.save: page_path
SavePagePath(directory, page) ==
    joinpath(joinpath(directory, Str_pages),
             _escape_filename(page.title) \o Str_json)

----------------------------------------------------------------------------
(* _json.py: save_json and load_json. A file holds a JSON text, here the  *)
(* tree of its values: an object is the sequence of its members in the    *)
(* order they are written, and a value carries the JSON type it is        *)
(* written as.                                                            *)

JsonString(value) == [json |-> "string", value |-> value]
JsonNumber(value) == [json |-> "number", value |-> value]
JsonArray(items) == [json |-> "array", items |-> items]
JsonObject(members) == [json |-> "object", members |-> members]

\* The keys of the schemas whose values are integers
NumberKeys ==
    {"exported", "created", "updated", "backuped", "totalPages", "totalLinks"}

\* The order in which the keys of a dict are written
KeyOrder ==
    <<"name", "displayName", "exported", "pages", "title", "created",
      "updated", "id", "lines", "linksLc", "text", "backuped", "totalPages",
      "totalLinks">>

Keys(dict) ==
    LET IsKey(k) == k \in DOMAIN dict
    IN  SelectSeq(KeyOrder, IsKey)

\* A dict as a JSON object: the values of the keys of `nested` are given,
\* the others are the integers and strs of the dict
DumpDict(dict, nested) ==
    LET keys == Keys(dict)
    IN  JsonObject([m \in 1..Len(keys) |->
            <<keys[m],
              IF keys[m] \in DOMAIN nested THEN nested[keys[m]]
              ELSE IF keys[m] \in NumberKeys THEN JsonNumber(dict[keys[m]])
              ELSE JsonString(dict[keys[m]])>>])

DumpLine(line) ==
    IF line.type = "string" THEN JsonString(line.value)
    ELSE DumpDict(line.value, <<>>)

DumpPage(page) ==
    DumpDict(page,
        [key \in {"lines", "linksLc"} \cap DOMAIN page |->
            IF key = "lines"
            THEN JsonArray([k \in 1..Len(page.lines) |-> DumpLine(page.lines[k])])
            ELSE JsonArray([k \in 1..Len(page.linksLc) |->
                               JsonString(page.linksLc[k])])])

DumpBackup(document) ==
    DumpDict(document,
        [key \in {"pages"} |->
            JsonArray([k \in 1..Len(document.pages) |->
                          DumpPage(document.pages[k])])])

DumpInfo(metadata) == DumpDict(metadata, <<>>)

\* json.load: a later member of an object replaces an earlier one of the
\* same key; an element of 'lines' is a str or a dict
RECURSIVE json_load(_)
json_load(text) ==
    CASE text.json \in {"string", "number"} -> text.value
      [] text.json = "array" ->
            [k \in 1..Len(text.items) |-> json_load(text.items[k])]
      [] text.json = "object" ->
            [key \in { text.members[m][1] : m \in 1..Len(text.members) } |->
                LET last == CHOOSE m \in 1..Len(text.members) :
                                /\ text.members[m][1] = key
                                /\ \A n \in m + 1..Len(text.members) :
                                       text.members[n][1] # key
                    value == text.members[last][2]
                IN  IF key = "lines"
                    THEN [k \in 1..Len(value.items) |->
                             [type |-> value.items[k].json,
                              value |-> json_load(value.items[k])]]
                    ELSE json_load(value)]

\* save_json: the file at the path is created or replaced
save_json(fs, path, text) ==
    [p \in DOMAIN fs \cup {path} |-> IF p = path THEN text ELSE fs[p]]

\* The files after the writes, in their order
RECURSIVE WriteAll(_, _)
WriteAll(fs, writes) ==
    IF writes = <<>> THEN fs
    ELSE WriteAll(save_json(fs, Head(writes)[1], Head(writes)[2]),
                  Tail(writes))

\* load_json: None when there is no file at the path
load_json(fs, path) ==
    IF path \in DOMAIN fs THEN json_load(fs[path]) ELSE None

----------------------------------------------------------------------------
(* _backup.py: Backup.save and Backup.load *)

\* The directory of every Backup
Directory == << <<"d">> >>

\* Backup.save: the files written and their contents, in order
SaveWrites(directory, project_name, document, metadata) ==
    LET backup_path == SaveBackupPath(directory, project_name)
    IN  << <<backup_path, DumpBackup(document)>> >>
        \o (IF metadata # None
            THEN << <<with_suffix(backup_path, Str_info_json),
                      DumpInfo(metadata)>> >>
            ELSE <<>>)
        \o [k \in 1..Len(document.pages) |->
               <<SavePagePath(directory, document.pages[k]),
                 DumpPage(document.pages[k])>>]

\* Backup.save
Save ==
    /\ status = "constructed"
    /\ save_pc = "unsaved"
    /\ saves < MaxSaves
    /\ disk' = WriteAll(disk, SaveWrites(Directory, project, backup, info))
    /\ saves' = saves + 1
    /\ save_pc' = "saved"
    /\ load_pc' = "idle"
    /\ loaded' = None
    /\ written' = [k \in 1..Len(SaveWrites(Directory, project, backup, info)) |->
                      SaveWrites(Directory, project, backup, info)[k][1]]
    /\ UNCHANGED <<backup, info, status, project, files_pc, files>>

\* Backup.load(project, directory): None, a Backup, or ValidationError from
\* load_json or from Backup.__init__
Load ==
    /\ load_pc = "idle"
    /\ LET backup_path == LoadBackupPath(Directory, project)
           document == load_json(disk, backup_path)
           metadata == load_json(disk, with_suffix(backup_path, Str_info_json))
       IN  IF document = None
           THEN /\ load_pc' = "returned"
                /\ loaded' = None
           ELSE IF /\ jsonschema_backup(document)
                   /\ metadata # None => jsonschema_backup_info(metadata)
           THEN /\ load_pc' = "returned"
                /\ loaded' = [project |-> project, directory |-> Directory,
                              backup |-> document, info |-> metadata]
           ELSE /\ load_pc' = "ValidationError"
                /\ loaded' = None
    /\ UNCHANGED <<backup, info, status, project, disk, saves, save_pc,
                   written, files_pc, files>>

\* A path of save_files whose file name is the page's title as it is
SaveFilesPagePathUnescaped(directory, page) ==
    joinpath(joinpath(directory, Str_pages), page.title \o Str_json)

\* Backup.save_files: backup_path
SaveFilesBackupPath(directory, project_name) ==
    joinpath(directory, _escape_filename(project_name) \o Str_json)

\* Backup.save_files: the path of a page
SaveFilesPagePath(directory, page) ==
    joinpath(joinpath(directory, Str_pages),
             _escape_filename(page.title) \o Str_json)

\* Backup.save_files: the list `files`
save_files(directory, project_name, document, metadata) ==
    LET backup_path == SaveFilesBackupPath(directory, project_name)
    IN  <<backup_path>>
        \o (IF metadata # None
            THEN <<with_suffix(backup_path, Str_info_json)>>
            ELSE <<>>)
        \o [k \in 1..Len(document.pages) |->
               SaveFilesPagePath(directory, document.pages[k])]

\* Backup.save_files
SaveFiles ==
    /\ status = "constructed"
    /\ files_pc = "idle"
    /\ files' = save_files(Directory, project, backup, info)
    /\ files_pc' = "returned"
    /\ UNCHANGED <<backup, info, status, project, disk, saves, save_pc,
                   load_pc, loaded, written>>

----------------------------------------------------------------------------
(* The Backups that are saved and loaded *)

StoreProjects == { <<"a">>, <<"a", " ", "b">>, <<"a", "/", "#", "%">> }

PlainPage ==
    [title |-> <<"a", " ", "b">>, created |-> 1, updated |-> 1, id |-> <<"a">>,
     lines |-> <<PyStr(<<"a", " ", "b">>), PyStr(<<>>)>>,
     linksLc |-> << <<"a", "_", "b">> >>]

RecordPage ==
    [title |-> <<"a", "_", "b">>, created |-> 2, updated |-> 2,
     lines |-> <<PyDict([text |-> <<"a", "_", "b">>, created |-> 2,
                         updated |-> 2]),
                 PyDict([text |-> <<"b">>])>>]

StorePages ==
    { <<>>, <<PlainPage>>, <<RecordPage>>, <<PlainPage, RecordPage>>,
      <<RecordPage, [PlainPage EXCEPT !.title = <<"b">>]>> }

StoreBackups ==
    { [GoodBackup EXCEPT !.exported = e, !.pages = ps] :
          e \in 1..2, ps \in StorePages }

StoreInfos ==
    { None, GoodInfo, [id |-> <<"b">>, backuped |-> 2] }

\* A further Backup of the project is made, as by the next download
NewBackup ==
    /\ status = "constructed"
    /\ save_pc = "saved"
    /\ saves < MaxSaves
    /\ backup' \in StoreBackups
    /\ info' \in StoreInfos
    /\ status' = "new"
    /\ save_pc' = "unsaved"
    /\ load_pc' = "idle"
    /\ loaded' = None
    /\ written' = <<>>
    /\ files_pc' = "idle"
    /\ files' = <<>>
    /\ UNCHANGED <<project, disk, saves>>

----------------------------------------------------------------------------
(* _backup.py: Backup.sort_pages *)

\* list.sort(key=...) on integer keys is stable: the list in ascending order
\* of its keys, elements of equal keys in their order in the list
list_sort(list, keys) ==
    LET n == Len(list)
        before(k) == {j \in 1..n : \/ keys[j] < keys[k]
                                   \/ keys[j] = keys[k] /\ j < k}
    IN  [p \in 1..n |-> list[CHOOSE k \in 1..n : Cardinality(before(k)) = p - 1]]

\* The pages in ascending order of created, the list then reversed
SortedDescByReverse(pages) ==
    LET asc == list_sort(pages, [k \in 1..Len(pages) |-> pages[k].created])
    IN  [p \in 1..Len(asc) |-> asc[Len(asc) + 1 - p]]

\* case 'created-asc': sort(key=lambda page: page['created'])
SortedAsc(pages) ==
    list_sort(pages, [k \in 1..Len(pages) |-> pages[k].created])

\* case 'created-desc': sort(key=lambda page: - page['created'])
SortedDesc(pages) ==
    list_sort(pages, [k \in 1..Len(pages) |-> 0 - pages[k].created])

PageOrder == {"None", "as-is", "created-asc", "created-desc"}

\* Backup.sort_pages(order): the list self._backup['pages'] is sorted in place
SortPages ==
    /\ status = "constructed"
    /\ sort_pc = "idle"
    /\ \E o \in PageOrder :
           /\ page_order' = o
           /\ backup' = [backup EXCEPT !.pages =
                             CASE o \in {"None", "as-is"} -> @
                               [] o = "created-asc" -> SortedAsc(@)
                               [] o = "created-desc" -> SortedDesc(@)]
    /\ unsorted' = backup.pages
    /\ sort_pc' = "returned"
    /\ UNCHANGED <<info, status>>

----------------------------------------------------------------------------
(* The documents whose pages are sorted: the k-th page has a title of k   *)
(* characters and any value of created                                    *)

SortPage(k, created) ==
    [title |-> [j \in 1..k |-> "a"], created |-> created, updated |-> created,
     lines |-> <<PyStr(<<"a">>)>>]

SortBackups ==
    { [GoodBackup EXCEPT !.pages = [k \in 1..Len(cs) |-> SortPage(k, cs[k])]] :
          cs \in UNION { [1..n -> 1..MaxCreated] : n \in 0..MaxSortPages } }

----------------------------------------------------------------------------
(* _download.py: download, and _export.py: export. A snapshot of a run is *)
(* what the run is given for it: its timestamp, the document (the parsed  *)
(* response, or the parsed file of the commit), its metadata (the entry   *)
(* of the backup list, or the parsed body of the commit, None when the    *)
(* body is empty), and whether the response was ok.                       *)

Digits == <<"0", "1", "2", "3", "4", "5", "6", "7", "8", "9">>

\* f'{timestamp}': the decimal digits of a natural number
RECURSIVE IntStr(_)
IntStr(n) ==
    IF n < 10 THEN <<Digits[n + 1]>>
    ELSE IntStr(n \div 10) \o <<Digits[(n % 10) + 1]>>

\* joinpath(f'{timestamp}.json')
TimestampPath(directory, timestamp) ==
    joinpath(directory, IntStr(timestamp) \o Str_json)

\* joinpath(f'{timestamp}.info.json')
TimestampInfoPath(directory, timestamp) ==
    joinpath(directory, IntStr(timestamp) \o Str_info_json)

\* _download_backup: one turn of the loop of download. The files exist and
\* the download is skipped; the response is not ok and _request_json returns
\* None; jsonschema.validate raises ValidationError, which nothing between
\* _request_json and the caller of download catches; or both files are saved.
DownloadBackup ==
    /\ run_kind = "download"
    /\ run_pc = "running"
    /\ position <= Len(remote)
    /\ LET snapshot == remote[position]
           backup_path == TimestampPath(Directory, snapshot.info.backuped)
           info_path == TimestampInfoPath(Directory, snapshot.info.backuped)
       IN  IF backup_path \in DOMAIN disk /\ info_path \in DOMAIN disk
           THEN /\ position' = position + 1
                /\ UNCHANGED <<disk, run_pc>>
           ELSE IF ~snapshot.ok
           THEN /\ position' = position + 1
                /\ UNCHANGED <<disk, run_pc>>
           ELSE IF ~jsonschema_backup(snapshot.document)
           THEN /\ run_pc' = "ValidationError"
                /\ UNCHANGED <<disk, position>>
           ELSE /\ disk' = WriteAll(disk,
                               << <<backup_path, DumpBackup(snapshot.document)>>,
                                  <<info_path, DumpInfo(snapshot.info)>> >>)
                /\ position' = position + 1
                /\ UNCHANGED run_pc
    /\ UNCHANGED <<run_kind, remote>>

\* Commit.backup_info: None for an empty body and for a body that does not
\* validate as metadata
backup_info(body) ==
    IF body = None THEN None
    ELSE IF jsonschema_backup_info(body) THEN body
    ELSE None

\* _export: one turn of the loop of export. parse_json raises
\* ValidationError, which nothing between parse_json and the caller of export
\* catches; or the document is saved, and the metadata when there is one.
ExportCommit ==
    /\ run_kind = "export"
    /\ run_pc = "running"
    /\ position <= Len(remote)
    /\ LET commit == remote[position]
           backup_json_path == TimestampPath(Directory, commit.timestamp)
           info_json_path == TimestampInfoPath(Directory, commit.timestamp)
           info_json == backup_info(commit.info)
       IN  IF ~jsonschema_backup(commit.document)
           THEN /\ run_pc' = "ValidationError"
                /\ UNCHANGED <<disk, position>>
           ELSE /\ disk' = WriteAll(disk,
                               << <<backup_json_path, DumpBackup(commit.document)>> >>
                               \o (IF info_json # None
                                   THEN << <<info_json_path, DumpInfo(info_json)>> >>
                                   ELSE <<>>))
                /\ position' = position + 1
                /\ UNCHANGED run_pc
    /\ UNCHANGED <<run_kind, remote>>

\* download and export: the loop is over and the run returns
RunReturn ==
    /\ run_pc = "running"
    /\ position > Len(remote)
    /\ run_pc' = "returned"
    /\ UNCHANGED <<run_kind, remote, position, disk>>

----------------------------------------------------------------------------
(* The runs: the k-th snapshot has the timestamp k; the directory is      *)
(* empty, or holds the files an earlier run saved for the first snapshot  *)

InvalidBackup == Without(GoodBackup, "pages")

SnapshotInfo(k) == [id |-> IntStr(k), backuped |-> k]

DownloadSnapshots(k) ==
    { [timestamp |-> k, document |-> d, info |-> SnapshotInfo(k), ok |-> ok] :
          d \in {GoodBackup, InvalidBackup}, ok \in BOOLEAN }

ExportSnapshots(k) ==
    { [timestamp |-> k, document |-> d, info |-> b, ok |-> TRUE] :
          d \in {GoodBackup, InvalidBackup},
          b \in {None, SnapshotInfo(k), Without(SnapshotInfo(k), "id")} }

Runs(kind) ==
    UNION { { r \in [1..n -> UNION { DownloadSnapshots(k) \cup ExportSnapshots(k) :
                                       k \in 1..n }] :
                \A k \in 1..n : r[k] \in IF kind = "download"
                                         THEN DownloadSnapshots(k)
                                         ELSE ExportSnapshots(k) } :
            n \in 0..MaxSnapshots }

\* The files of the first snapshot as an earlier run saved them
PriorFiles ==
    WriteAll(<<>>,
        << <<TimestampPath(Directory, 1),
             DumpBackup([GoodBackup EXCEPT !.exported = 0])>>,
           <<TimestampInfoPath(Directory, 1), DumpInfo(SnapshotInfo(1))>> >>)

----------------------------------------------------------------------------
(* The specifications: each runs one part of the program and leaves the    *)
(* others idle.                                                            *)

BackupIdle ==
    /\ backup = GoodBackup
    /\ info = None
    /\ status = "idle"

ScanIdle ==
    /\ scan_pc = "idle"
    /\ page_no = 0
    /\ line_no = 0
    /\ i = 0
    /\ code_block_indent_level = NoLevel
    /\ ext_links = <<>>
    /\ yielded = <<>>

InternalIdle ==
    /\ internal_pc = "idle"
    /\ internal_links = <<>>

StoreIdle ==
    /\ project = <<"a">>
    /\ disk = <<>>
    /\ saves = 0
    /\ save_pc = "unsaved"
    /\ load_pc = "idle"
    /\ loaded = None
    /\ written = <<>>
    /\ files_pc = "idle"
    /\ files = <<>>

SortIdle ==
    /\ sort_pc = "idle"
    /\ page_order = "None"
    /\ unsorted = <<>>

RunIdle ==
    /\ run_kind = "idle"
    /\ remote = <<>>
    /\ position = 0
    /\ run_pc = "idle"

ProbeIdle ==
    /\ links = <<>>
    /\ parallel_limit = 0
    /\ semaphore = 0
    /\ pc = <<>>
    /\ outcome = <<>>
    /\ task_result = <<>>
    /\ finished = <<>>
    /\ gather = "idle"
    /\ logs = <<>>
    /\ clock = 0

InitSchema ==
    /\ backup \in SchemaBackups
    /\ info \in SchemaInfos
    /\ status = "new"
    /\ ScanIdle
    /\ InternalIdle
    /\ StoreIdle
    /\ SortIdle
    /\ RunIdle
    /\ ProbeIdle

NextSchema == Construct /\ UNCHANGED <<scanVars, internalVars, storeVars, sortVars, runVars, probeVars>>

SpecSchema == InitSchema /\ [][NextSchema]_vars

InitScan ==
    /\ backup \in ScanBackups
    /\ info = None
    /\ status = "new"
    /\ ScanIdle
    /\ InternalIdle
    /\ StoreIdle
    /\ SortIdle
    /\ RunIdle
    /\ ProbeIdle

NextScan ==
    \/ Construct /\ UNCHANGED <<scanVars, internalVars, storeVars, sortVars, runVars, probeVars>>
    \/ ExternalLinksCall /\ UNCHANGED <<backupVars, internalVars, storeVars, sortVars, runVars, probeVars>>
    \/ ScanLine /\ UNCHANGED <<backupVars, internalVars, storeVars, sortVars, runVars, probeVars>>
    \/ NextPage /\ UNCHANGED <<backupVars, internalVars, storeVars, sortVars, runVars, probeVars>>
    \/ ExternalLinksReturn /\ UNCHANGED <<backupVars, internalVars, storeVars, sortVars, runVars, probeVars>>

SpecScan == InitScan /\ [][NextScan]_vars

InitInternal ==
    /\ backup \in InternalBackups
    /\ info = None
    /\ status = "new"
    /\ ScanIdle
    /\ InternalIdle
    /\ StoreIdle
    /\ SortIdle
    /\ RunIdle
    /\ ProbeIdle

NextInternal ==
    \/ Construct /\ UNCHANGED <<scanVars, internalVars, storeVars, sortVars, runVars, probeVars>>
    \/ InternalLinks /\ UNCHANGED <<backupVars, scanVars, storeVars, sortVars, runVars, probeVars>>

SpecInternal == InitInternal /\ [][NextInternal]_vars

InitStore ==
    /\ backup \in StoreBackups
    /\ info \in StoreInfos
    /\ status = "new"
    /\ project \in StoreProjects
    /\ disk = <<>>
    /\ saves = 0
    /\ save_pc = "unsaved"
    /\ load_pc = "idle"
    /\ loaded = None
    /\ written = <<>>
    /\ files_pc = "idle"
    /\ files = <<>>
    /\ ScanIdle
    /\ InternalIdle
    /\ SortIdle
    /\ RunIdle
    /\ ProbeIdle

NextStore ==
    \/ Construct /\ UNCHANGED <<scanVars, internalVars, storeVars, sortVars, runVars, probeVars>>
    \/ Save /\ UNCHANGED <<scanVars, internalVars, sortVars, runVars, probeVars>>
    \/ Load /\ UNCHANGED <<scanVars, internalVars, sortVars, runVars, probeVars>>
    \/ SaveFiles /\ UNCHANGED <<scanVars, internalVars, sortVars, runVars, probeVars>>
    \/ NewBackup /\ UNCHANGED <<scanVars, internalVars, sortVars, runVars, probeVars>>

SpecStore == InitStore /\ [][NextStore]_vars

InitSort ==
    /\ backup \in SortBackups
    /\ info = None
    /\ status = "new"
    /\ ScanIdle
    /\ InternalIdle
    /\ StoreIdle
    /\ SortIdle
    /\ RunIdle
    /\ ProbeIdle

NextSort ==
    \/ Construct /\ UNCHANGED <<scanVars, internalVars, storeVars, sortVars, runVars, probeVars>>
    \/ SortPages /\ UNCHANGED <<scanVars, internalVars, storeVars, runVars, probeVars>>

SpecSort == InitSort /\ [][NextSort]_vars

InitRun ==
    /\ BackupIdle
    /\ ScanIdle
    /\ InternalIdle
    /\ SortIdle
    /\ ProbeIdle
    /\ project = <<"a">>
    /\ disk \in {<<>>, PriorFiles}
    /\ saves = 0
    /\ save_pc = "unsaved"
    /\ load_pc = "idle"
    /\ loaded = None
    /\ written = <<>>
    /\ files_pc = "idle"
    /\ files = <<>>
    /\ run_kind \in {"download", "export"}
    /\ remote \in Runs(run_kind)
    /\ position = 1
    /\ run_pc = "running"

RunUnchanged ==
    UNCHANGED <<backupVars, scanVars, internalVars, sortVars, probeVars, project,
                saves, save_pc, load_pc, loaded, written, files_pc, files>>

NextRun ==
    \/ DownloadBackup /\ RunUnchanged
    \/ ExportCommit /\ RunUnchanged
    \/ RunReturn /\ RunUnchanged

SpecRun == InitRun /\ [][NextRun]_vars

InitProbe ==
    /\ BackupIdle
    /\ ScanIdle
    /\ InternalIdle
    /\ StoreIdle
    /\ SortIdle
    /\ RunIdle
    /\ links \in LinkLists
    /\ parallel_limit \in 1..MaxParallel
    /\ semaphore = SemaphoreInit(parallel_limit)
    /\ pc = [t \in 1..Len(links) |-> "created"]
    /\ outcome = [t \in 1..Len(links) |-> NoLog]
    /\ task_result = [t \in 1..Len(links) |-> NoLog]
    /\ finished = <<>>
    /\ gather = "pending"
    /\ logs = <<>>
    /\ clock = 0

NextProbe ==
    \/ \E t \in Tasks : EnterRequest(t)
    \/ \E t \in Tasks : Respond(t)
    \/ \E t \in Tasks : Raise(t)
    \/ GatherReturn

SpecProbe == InitProbe /\ [][NextProbe]_vars

----------------------------------------------------------------------------
(* Claims about _request_external_links *)

\* C1: the number of requests in flight (tasks that have entered _request and
\* not yet returned) never exceeds parallel_limit.
C1_InFlightBounded == Cardinality(InFlight) <= parallel_limit

\* C1's case: parallel_limit requests are in flight and a further task is
\* held back by the semaphore.
C1_Witness ==
    /\ parallel_limit = 2
    /\ Cardinality(InFlight) = parallel_limit
    /\ \E t \in Tasks : pc[t] = "created"

\* C2: when the batch completes, the returned list has exactly one entry per
\* input link, and entry k carries the url and the locations of link k,
\* whatever the order of completion.
C2_LogsInInputOrder ==
    gather = "returned" =>
        /\ Len(logs) = Len(links)
        /\ \A k \in 1..Len(links) :
            /\ logs[k].url = links[k].url
            /\ logs[k].locations = links[k].locations

\* C2's case: a batch of three links has returned and the requests completed
\* in the reverse of the input order.
C2_Witness ==
    /\ gather = "returned"
    /\ Len(links) = 3
    /\ finished = <<3, 2, 1>>

FatalOutcomes == {t \in Tasks : outcome[t].kind = "Exception"}

C3_State ==
    /\ \A t \in Tasks :
        /\ outcome[t].kind \in {"asyncio.TimeoutError", "aiohttp.ClientError"}
              => pc[t] = "done" /\ task_result[t].response = ErrorResponse
        /\ outcome[t].kind = "response"
              => /\ pc[t] = "done"
                 /\ task_result[t].response =
                        ResponseLog(outcome[t].status, outcome[t].content_type)
    /\ gather = "raised" => FatalOutcomes # {}
    /\ gather = "pending" /\ FatalOutcomes = {} => ENABLED NextProbe
    /\ gather = "returned" =>
        /\ Len(logs) = Len(links)
        /\ \A t \in Tasks :
            /\ outcome[t].kind # "none"
            /\ logs[t].response = task_result[t].response

C3_Step ==
    \A t \in Tasks :
        /\ outcome[t].kind = "none"
        /\ outcome'[t].kind \in {"asyncio.TimeoutError", "aiohttp.ClientError"}
        => /\ gather' = "pending"
           /\ \A u \in Tasks \ {t} :
                /\ pc'[u] = pc[u]
                /\ outcome'[u] = outcome[u]
                /\ task_result'[u] = task_result[u]

\* C3: a probe that times out or fails at the transport level is never fatal
\* to the batch: its entry gets the response 'error', it neither cancels nor
\* changes any other request, the batch goes on until every link has been
\* requested, a completed response of any status is logged as
\* {status_code, content_type}, and the batch returns an entry for every link.
C3_ErrorNotFatal == []C3_State /\ [][C3_Step]_vars

\* C3's case: a batch of three links has returned although its first request
\* to complete timed out and another failed at the transport level; the third
\* got a 404.
C3_Witness ==
    /\ gather = "returned"
    /\ Len(links) = 3
    /\ outcome[finished[1]].kind = "asyncio.TimeoutError"
    /\ outcome[finished[2]].kind = "aiohttp.ClientError"
    /\ outcome[finished[3]].kind = "response"
    /\ outcome[finished[3]].status = 404
    /\ logs[finished[1]].response = ErrorResponse

----------------------------------------------------------------------------
(* Claims about the schemas and Backup.__init__ *)

\* The keys a document must have (required) and may have (declared), as the
\* schemas and the TypedDicts of _backup.py declare them
LacksOrExceeds(f, required, declared) ==
    ~(required \subseteq DOMAIN f) \/ ~(DOMAIN f \subseteq declared)

LineKeyDefect(line) ==
    /\ line.type = "object"
    /\ LacksOrExceeds(line.value, {"text", "created", "updated"},
                      {"text", "created", "updated"})

PageKeyDefect(page) ==
    \/ LacksOrExceeds(page, {"title", "created", "updated", "lines"},
                      {"title", "created", "updated", "id", "lines", "linksLc"})
    \/ /\ "lines" \in DOMAIN page
       /\ \E k \in 1..Len(page.lines) : LineKeyDefect(page.lines[k])

KeyDefect ==
    \/ LacksOrExceeds(backup, {"name", "displayName", "exported", "pages"},
                      {"name", "displayName", "exported", "pages"})
    \/ /\ "pages" \in DOMAIN backup
       /\ \E k \in 1..Len(backup.pages) : PageKeyDefect(backup.pages[k])
    \/ /\ info # None
       /\ LacksOrExceeds(info, {"id", "backuped"},
                         {"id", "backuped", "totalPages", "totalLinks"})

\* C8: constructing a Backup fails with a validation error whenever the
\* document, one of its pages, one of its record-form lines or the metadata
\* lacks a required key or carries an undeclared one; in particular a line
\* record without text, created or updated is rejected.
C8_KeyDefectRejected ==
    status # "new" /\ KeyDefect => status = "ValidationError"

AllPlainStrings(lines) == \A k \in 1..Len(lines) : lines[k].type = "string"

AllWellFormedRecords(lines) ==
    \A k \in 1..Len(lines) :
        /\ lines[k].type = "object"
        /\ DOMAIN lines[k].value = {"text", "created", "updated"}

\* C9: a page whose lines are only plain strings, and a page whose lines are
\* only well-formed line records, pass the validation of the page schema,
\* for every length of the array, the empty array included.
C9_BothLineFormsValid ==
    /\ status # "new"
    /\ ~LacksOrExceeds(backup, {"name", "displayName", "exported", "pages"},
                       {"name", "displayName", "exported", "pages"})
    /\ info = None
    /\ \A k \in 1..Len(backup.pages) :
        /\ ~LacksOrExceeds(backup.pages[k],
               {"title", "created", "updated", "lines"},
               {"title", "created", "updated", "id", "lines", "linksLc"})
        /\ \/ AllPlainStrings(backup.pages[k].lines)
           \/ AllWellFormedRecords(backup.pages[k].lines)
    => status = "constructed"

----------------------------------------------------------------------------
(* Claims about _filter_code and Backup.external_links *)

\* The occurrences of urls in the lines _filter_code has yielded, in the
\* order of the scan: each with its url and the location of its line
RECURSIVE Occurrences(_)
Occurrences(lines) ==
    IF lines = <<>> THEN <<>>
    ELSE LET urls == regex_findall(Head(lines).line)
         IN  [k \in 1..Len(urls) |->
                 [url |-> urls[k], location |-> Head(lines).location]]
             \o Occurrences(Tail(lines))

LocationsOf(url, occurrences) ==
    LET hits == SelectSeq(occurrences, LAMBDA o : o.url = url)
    IN  [k \in 1..Len(hits) |-> hits[k].location]

\* C5: the result of external_links holds no two entries of the same url;
\* every occurrence of a url on a filtered line contributes one Location to
\* the one entry of its url, and the locations of an entry are in the order
\* of the scan (pages in document order, then lines), whatever the final
\* sort by url does.
C5_OneEntryPerUrl ==
    scan_pc = "returned" =>
        LET occurrences == Occurrences(yielded)
        IN  /\ \A a, b \in 1..Len(ext_links) :
                   a # b => ext_links[a].url # ext_links[b].url
            /\ \A k \in 1..Len(occurrences) :
                   \E a \in 1..Len(ext_links) :
                       ext_links[a].url = occurrences[k].url
            /\ \A a \in 1..Len(ext_links) :
                   ext_links[a].locations =
                       LocationsOf(ext_links[a].url, occurrences)

\* C5's case: two urls were found, the one that sorts second first; the one
\* that sorts first occurs on two pages and has its two locations merged.
C5_Witness ==
    /\ scan_pc = "returned"
    /\ Len(ext_links) = 2
    /\ Occurrences(yielded)[1].url = ext_links[2].url
    /\ Len(ext_links[1].locations) = 2
    /\ ext_links[1].locations[1].title # ext_links[1].locations[2].title

\* The line that the next iteration of _filter_code is about
ScanningText ==
    /\ scan_pc = "scanning"
    /\ page_no <= Len(backup.pages)
    /\ line_no < Len(backup.pages[page_no].lines)
    /\ HasText(backup.pages[page_no].lines[line_no + 1])

CurrentText == TextOf(backup.pages[page_no].lines[line_no + 1])

\* C6: after a block start with an indent of k, a line indented by more
\* than k is not yielded and leaves the block open; a line indented by at
\* most k ends the block and is handled as a line outside any block; and a
\* line outside a block is suppressed only if it is a block start (which
\* opens a block at its indent) or a CLI line, and is otherwise yielded with
\* its inline code replaced.
C6_Step ==
    ScanningText /\ line_no' = line_no + 1 =>
        LET k == code_block_indent_level
            line == CurrentText
            skipped == yielded' = yielded
        IN  IF k # NoLevel /\ IndentLength(line) > k
            THEN skipped /\ code_block_indent_level' = k
            ELSE /\ skipped <=> code_block_match(line) \/ cli_notation_match(line)
                 /\ code_block_indent_level' =
                        IF code_block_match(line) THEN IndentLength(line)
                        ELSE NoLevel
                 /\ ~skipped =>
                        /\ Len(yielded') = Len(yielded) + 1
                        /\ yielded'[Len(yielded')].line = code_snippets_sub(line)

C6_BlockSuppressed == [][C6_Step]_vars

\* C6's case: a block start indented by one, a line indented by two that is
\* suppressed, and a line indented by one, which ends the block and is
\* yielded.
C6_Witness ==
    /\ scan_pc = "scanning"
    /\ page_no = 1
    /\ line_no = 3
    /\ LET lines == backup.pages[1].lines
       IN  /\ lines[1].type = "string"
           /\ code_block_match(lines[1].value)
           /\ IndentLength(lines[1].value) = 1
           /\ IndentLength(lines[2].value) = 2
           /\ IndentLength(lines[3].value) = 1
           /\ ~code_block_match(lines[3].value)
    /\ Len(yielded) = 1
    /\ yielded[1].location.line = 2

\* C7: every line _filter_code yields is paired with a Location whose line
\* is the 0-based position of that line in the unfiltered lines of its page,
\* for plain-string lines and for record lines.
C7_LocationIsPosition ==
    \A k \in 1..Len(yielded) :
        /\ yielded[k].location.title = backup.pages[yielded[k].page].title
        /\ yielded[k].location.line = yielded[k].position

----------------------------------------------------------------------------
(* Claims about Backup.internal_links *)

\* The titles of the snapshot that a link matches when both are normalized
MatchingTitles(link) ==
    { backup.pages[k].title : k \in
        { j \in 1..Len(backup.pages) :
            _normalize_page_title(backup.pages[j].title)
                = _normalize_page_title(link) } }

\* C4: for every page and every entry of its linksLc whose normalization
\* equals the normalization of a page title of the snapshot, the target
\* node is of type 'page' and named by that page's stored title; an entry
\* without such a title yields a node of type 'word' named by the raw link.
C4_LinkResolvesToTitle ==
    internal_pc = "returned" =>
        \A p \in 1..Len(backup.pages) :
            LET page == backup.pages[p]
                entry == CHOOSE e \in 1..Len(internal_links) :
                             internal_links[e].node.name = page.title
                targets == internal_links[entry].to_links
            IN  \A k \in 1..Len(page.linksLc) :
                    \E n \in 1..Len(targets) :
                        IF MatchingTitles(page.linksLc[k]) # {}
                        THEN /\ targets[n].type = "page"
                             /\ targets[n].name \in MatchingTitles(page.linksLc[k])
                        ELSE /\ targets[n].type = "word"
                             /\ targets[n].name = page.linksLc[k]

----------------------------------------------------------------------------
(* Claims about Backup.save and Backup.load *)

\* C10: when Backup.load(project, directory) is called after the Backup of
\* that project and directory was saved, it returns a Backup, and the
\* document of that Backup equals the saved one, whether its pages have
\* lines of strs or lines of records.
C10_SaveLoadRoundTrip ==
    (save_pc = "saved" /\ load_pc # "idle") =>
        /\ load_pc = "returned"
        /\ loaded # None
        /\ loaded.backup = backup

\* A project whose name is escaped, with a page of each form of lines, is
\* loaded after its second save
C10_Witness ==
    /\ save_pc = "saved"
    /\ load_pc = "returned"
    /\ saves = 2
    /\ _escape_filename(project) # project
    /\ \E p, q \in 1..Len(backup.pages) :
           /\ \A k \in 1..Len(backup.pages[p].lines) :
                  backup.pages[p].lines[k].type = "string"
           /\ \A k \in 1..Len(backup.pages[q].lines) :
                  backup.pages[q].lines[k].type = "object"

\* C11: the list save_files returns is the sequence of paths save writes:
\* the file of the project, then the .info.json file exactly when the Backup
\* has metadata, then the file of each page in the order of the pages, the
\* names escaped as save escapes them.
C11_SaveFilesAreSavedPaths ==
    (files_pc = "returned" /\ save_pc = "saved") =>
        /\ files = written
        /\ Len(files) = 1 + (IF info # None THEN 1 ELSE 0) + Len(backup.pages)
        /\ \A k \in 1..Len(files) : files[k] \in DOMAIN disk

\* A Backup with metadata, an escaped project name and a page whose title is
\* escaped has been saved and its save_files listed
C11_Witness ==
    /\ files_pc = "returned"
    /\ save_pc = "saved"
    /\ info # None
    /\ _escape_filename(project) # project
    /\ \E k \in 1..Len(backup.pages) :
           _escape_filename(backup.pages[k].title) # backup.pages[k].title

----------------------------------------------------------------------------
(* Claims about Backup.sort_pages *)

\* Where the page is in the list before the call
PlaceBefore(page) == CHOOSE k \in 1..Len(unsorted) : unsorted[k] = page

\* C12: sort_pages with 'created-asc' or 'created-desc' leaves the list of
\* pages a permutation of what it was, in ascending or descending order of
\* created, pages of equal created in the order they had; with None or
\* 'as-is' it leaves the list as it was.
C12_SortPagesStable ==
    sort_pc = "returned" =>
        LET pages == backup.pages
        IN  /\ page_order \in {"None", "as-is"} => pages = unsorted
            /\ Len(pages) = Len(unsorted)
            /\ \A k \in 1..Len(unsorted) :
                   \E p \in 1..Len(pages) : pages[p] = unsorted[k]
            /\ page_order \in {"created-asc", "created-desc"} =>
                   \A p, q \in 1..Len(pages) :
                       p < q =>
                           \/ /\ page_order = "created-asc"
                              /\ pages[p].created < pages[q].created
                           \/ /\ page_order = "created-desc"
                              /\ pages[p].created > pages[q].created
                           \/ /\ pages[p].created = pages[q].created
                              /\ PlaceBefore(pages[p]) < PlaceBefore(pages[q])

\* Pages out of order, two of them of equal created, have been sorted in
\* descending order
C12_Witness ==
    /\ sort_pc = "returned"
    /\ page_order = "created-desc"
    /\ backup.pages # unsorted
    /\ \E j, k \in 1..Len(unsorted) :
           j # k /\ unsorted[j].created = unsorted[k].created

----------------------------------------------------------------------------
(* Claims about download and export *)

\* The files of the k-th snapshot of the run
SnapshotPaths(k) ==
    {TimestampPath(Directory, k), TimestampInfoPath(Directory, k)}

\* C13: a snapshot of a run of download or of export whose document does
\* not validate is skipped: no file is written for it, a file saved for it
\* before the run is as it was, and the run goes on to every later
\* snapshot, so that a run that has ended has ended by returning, past its
\* last snapshot.
C13_InvalidSnapshotSkipped ==
    /\ \A k \in 1..Len(remote) :
           ~jsonschema_backup(remote[k].document) =>
               \A path \in SnapshotPaths(k) \cap DOMAIN disk :
                   /\ path \in DOMAIN PriorFiles
                   /\ disk[path] = PriorFiles[path]
    /\ run_pc \notin {"idle", "running"} =>
           /\ run_pc = "returned"
           /\ position > Len(remote)

----------------------------------------------------------------------------
(* Claims about the files of the pages and of the metadata *)

\* C14: when the titles of the pages of a saved Backup are pairwise
\* distinct, save has written a file of its own for each page: two pages
\* have different paths under pages/, and the file at the path of a page
\* holds that page.
C14_OneFilePerPage ==
    (save_pc = "saved" /\
     \A j, k \in 1..Len(backup.pages) :
         j # k => backup.pages[j].title # backup.pages[k].title) =>
        /\ \A j, k \in 1..Len(backup.pages) :
               j # k => SavePagePath(Directory, backup.pages[j])
                            # SavePagePath(Directory, backup.pages[k])
        /\ \A k \in 1..Len(backup.pages) :
               json_load(disk[SavePagePath(Directory, backup.pages[k])])
                   = backup.pages[k]

\* C15: when load is called after the Backup of the project was saved, in
\* a directory that one or more Backups of the project have been saved to,
\* the metadata of the Backup it returns is the metadata of the Backup
\* saved last, None when that Backup had none.
C15_LoadsLastSavedInfo ==
    (save_pc = "saved" /\ load_pc = "returned" /\ loaded # None) =>
        loaded.info = info

============================================================================
